---- MODULE Spec2Model ----
(***************************************************************************)
(* Model of view/widgets/VariableTreeWidget.py: the tree widget that lists *)
(* a chapter's variables, with its context-menu handlers (add, move,       *)
(* delete), the cascading cleanup of the chapter's branch data, and the    *)
(* editors of its rows (label, check box, spin box).                       *)
(*                                                                         *)
(* Indices are Python/Qt indices (0-based, -1 = "no item"); the sequences  *)
(* of the model are TLA+ sequences, so element i of a list is s[i + 1].    *)
(***************************************************************************)
EXTENDS Integers, Sequences, FiniteSets, TLC

VARIABLES
    variables,   \* self.variables: the chapter's list of VariableDefinition
    branches,    \* self.chapter.branches
    rows,        \* the top-level items of the tree, in display order
    current,     \* indexOfTopLevelItem(currentItem()), -1 when there is none
    nextId,      \* the next identifier the variable factory hands out
    dirty,       \* FileState: the document has unsaved changes
    edits,       \* how many value and label edits the user has made
    last         \* what the most recent handler did (observation only)

vars == <<variables, branches, rows, current, nextId, dirty, edits, last>>

(***************************************************************************)
(* Bounds of the model.                                                    *)
(***************************************************************************)
\* Variables that ever exist: those loaded with the chapter plus those added.
MaxIds == 3
\* Length of chapter.variables when the widget is constructed.
MaxInitVars == 2
\* Length of an option's conditions list in the loaded chapter.
MaxConds == 3
\* Length of an option's operations list in the loaded chapter.
MaxOps == 2
\* Value and label edits the user makes in one session.
MaxEdits == 1
\* In the specification of all handlers, variables are added to a tree of
\* fewer rows than this.
MaxAddRows == 1

(***************************************************************************)
(* Python list operations, with Python's treatment of negative indices.    *)
(***************************************************************************)
\* list[i] does not raise IndexError
PyIndexOK(s, i) == (-Len(s) <= i) /\ (i < Len(s))

\* the position list[i] denotes, for an index that is in range
PyNorm(s, i) == IF i < 0 THEN i + Len(s) ELSE i

\* list[i]
PyGet(s, i) == s[PyNorm(s, i) + 1]

\* (variant: the entry stays in the list)
PyKeep(s, i) == s

\* del list[i]  (also the list left behind by list.pop(i))
PyDel(s, i) ==
    LET j == PyNorm(s, i)
    IN  SubSeq(s, 1, j) \o SubSeq(s, j + 2, Len(s))

\* list.insert(i, x): the index is clamped into 0..len(list), never an error
PyInsert(s, i, x) ==
    LET n == Len(s)
        j == IF i < 0
             THEN (IF i + n < 0 THEN 0 ELSE i + n)
             ELSE (IF i > n THEN n ELSE i)
    IN  SubSeq(s, 1, j) \o <<x>> \o SubSeq(s, j + 1, n)

(***************************************************************************)
(* Python values held by VariableDefinition.initial_value: the type of the *)
(* object and its number (True is 1 and False is 0; a float is written in  *)
(* hundredths). A value of one type never equals a value of another here,  *)
(* so True and the integer 2 are told apart.                               *)
(***************************************************************************)
PyBool(b) == [py |-> "bool", n |-> IF b THEN 1 ELSE 0]

PyInt(n) == [py |-> "int", n |-> n]

PyFloat(hundredths) == [py |-> "float", n |-> hundredths]

PyNone == [py |-> "NoneType", n |-> 0]

\* the truth value Python gives an object in "x if value else y"
PyTruth(value) == value.n # 0

(***************************************************************************)
(* QTreeWidget operations on the top-level items.                          *)
(***************************************************************************)
\* takeTopLevelItem(i): removes the item at i; does nothing for an invalid i
TakeTopLevelItem(items, i) ==
    IF (0 <= i) /\ (i < Len(items))
    THEN SubSeq(items, 1, i) \o SubSeq(items, i + 2, Len(items))
    ELSE items

\* insertTopLevelItem(i, item) inserts only for 0 <= i <= count
InsertOK(items, i) == (0 <= i) /\ (i <= Len(items))

InsertTopLevelItem(items, i, item) ==
    IF InsertOK(items, i)
    THEN SubSeq(items, 1, i) \o <<item>> \o SubSeq(items, i + 1, Len(items))
    ELSE items

\* The current index once the item at i has been taken out of a tree whose
\* current index was cur. When the current item itself is removed the view
\* moves the current index to a neighbouring row (which one is the
\* toolkit's choice), and to none when no row is left.
CurrentAfterTake(items, cur, i) ==
    IF ~((0 <= i) /\ (i < Len(items))) THEN {cur}
    ELSE IF cur < i THEN {cur}
    ELSE IF cur > i THEN {cur - 1}
    ELSE IF Len(items) = 1 THEN {-1}
    ELSE {j \in {i - 1, i} : (0 <= j) /\ (j < Len(items) - 1)}

(***************************************************************************)
(* Tree items (VariableTreeWidgetItemBase and its two subclasses).         *)
(* An item refers to its VariableDefinition object; the model names that   *)
(* object by its id, which the factory never hands out twice.              *)
(***************************************************************************)
\* QDoubleSpinBox as constructed: range 0.00 .. 99.99 (values in hundredths)
SpinBoxDefaultMin == 0
SpinBoxDefaultMax == 9999

\* QDoubleSpinBox.setValue under the range in force when it is called
SpinBoxSetValue(v) ==
    IF v < SpinBoxDefaultMin THEN SpinBoxDefaultMin
    ELSE IF v > SpinBoxDefaultMax THEN SpinBoxDefaultMax
    ELSE v

BoolTreeWidgetItem(variable) ==
    [variable |-> variable.id,
     kind     |-> "Bool",
     text     |-> variable.name,
     value    |-> IF PyTruth(variable.initial_value) THEN 2 ELSE 0]

FloatTreeWidgetItem(variable) ==
    [variable |-> variable.id,
     kind     |-> "Float",
     text     |-> variable.name,
     value    |-> SpinBoxSetValue(variable.initial_value.n)]

generate_item(variable) ==
    IF variable.type = "bool"
    THEN BoolTreeWidgetItem(variable)
    ELSE FloatTreeWidgetItem(variable)

\* clear(), then one item per variable, appended in list order
generate_items(vs) == [k \in 1..Len(vs) |-> generate_item(vs[k])]

(***************************************************************************)
(* The variable factory (model.defaults) and the type picker.              *)
(***************************************************************************)
DefaultName == "var"

\* default_variable_definition(False) / default_variable_definition(0.0):
\* the type is that of the initial value handed in
default_variable_definition(id, type, value) ==
    [id            |-> id,
     name          |-> DefaultName,
     type          |-> type,
     initial_value |-> value]

PickerResults == {"Flag", "Number", "Cancel"}

\* None is modelled by the record NoVariable
NoVariable ==
    [id |-> 0, name |-> "", type |-> "none", initial_value |-> PyNone]

\* (variant: the dialog's ok flag is not looked at; a cancelled dialog
\* returns the entry it showed first)
generate_new_variable_unchecked(id, picked) ==
    IF picked = "Number"
    THEN default_variable_definition(id, "float", PyFloat(0))
    ELSE default_variable_definition(id, "bool", PyBool(FALSE))

generate_new_variable(id, picked) ==
    IF picked = "Flag"
    THEN default_variable_definition(id, "bool", PyBool(FALSE))
    ELSE IF picked = "Number"
         THEN default_variable_definition(id, "float", PyFloat(0))
    ELSE NoVariable

(***************************************************************************)
(* Cascading cleanup of the chapter's branch data.                         *)
(***************************************************************************)
\* (variant: the right operand is not looked at)
ConditionMatchesLeftOnly(e, deleted_variable_id) ==
    e.left = deleted_variable_id

\* (variant: the kind of comparison is not looked at)
ConditionMatchesEitherSide(e, deleted_variable_id) ==
    \/ e.left = deleted_variable_id
    \/ e.right = deleted_variable_id

ConditionMatches(e, deleted_variable_id) ==
    \/ e.left = deleted_variable_id
    \/ (e.compare_to = "Variable" /\ e.right = deleted_variable_id)

OperationMatches(e, deleted_variable_id) ==
    e.variable_id = deleted_variable_id

\* for i in range(len(conditions) - 1, -1, -1): if match: del conditions[i]
RECURSIVE CleanConditions(_, _, _)
RECURSIVE ScanForward(_, _, _)
MatchesAt(conditions, j, deleted_variable_id) ==
    \/ conditions[j + 1].left = deleted_variable_id
    \/ (conditions[j + 1].compare_to = "Variable"
        /\ conditions[j + 1].right = deleted_variable_id)

\* (variant: a front-to-back scan that deletes while it advances)
ScanForward(conditions, j, deleted_variable_id) ==
    IF j >= Len(conditions) THEN conditions
    ELSE ScanForward(
            IF MatchesAt(conditions, j, deleted_variable_id)
            THEN PyDel(conditions, j)
            ELSE conditions,
            j + 1, deleted_variable_id)

CleanConditionsForward(conditions, i, deleted_variable_id) ==
    ScanForward(conditions, 0, deleted_variable_id)

CleanConditions(conditions, i, deleted_variable_id) ==
    IF i < 0 THEN conditions
    ELSE CleanConditions(
            IF ConditionMatches(PyGet(conditions, i), deleted_variable_id)
            THEN PyDel(conditions, i)
            ELSE conditions,
            i - 1, deleted_variable_id)

\* for i in range(len(operations) - 1, -1, -1): if match: del operations[i]
RECURSIVE CleanOperations(_, _, _)
CleanOperations(operations, i, deleted_variable_id) ==
    IF i < 0 THEN operations
    ELSE CleanOperations(
            IF OperationMatches(PyGet(operations, i), deleted_variable_id)
            THEN PyDel(operations, i)
            ELSE operations,
            i - 1, deleted_variable_id)

CleanOption(opt, deleted_variable_id) ==
    [conditions |-> CleanConditions(opt.conditions, Len(opt.conditions) - 1,
                                    deleted_variable_id),
     operations |-> CleanOperations(opt.operations, Len(opt.operations) - 1,
                                    deleted_variable_id)]

CleanSegment(seg, deleted_variable_id) ==
    [options |-> [k \in 1..Len(seg.options) |->
                    CleanOption(seg.options[k], deleted_variable_id)]]

\* (variant: the endings branch is scanned like any other)
CleanBranchAll(br, deleted_variable_id) ==
    [is_endings_branch |-> br.is_endings_branch,
     segments |-> [k \in 1..Len(br.segments) |->
                     CleanSegment(br.segments[k], deleted_variable_id)]]

CleanBranch(br, deleted_variable_id) ==
    IF br.is_endings_branch
    THEN br
    ELSE [is_endings_branch |-> br.is_endings_branch,
          segments |-> [k \in 1..Len(br.segments) |->
                          CleanSegment(br.segments[k], deleted_variable_id)]]

cleanup_after_variable_deletion(brs, deleted_variable_id) ==
    [k \in 1..Len(brs) |-> CleanBranch(brs[k], deleted_variable_id)]

(***************************************************************************)
(* The chapter as loaded.                                                  *)
(***************************************************************************)
\* Sequences over S of length at most n
BSeq(S, n) == UNION {[1..m -> S] : m \in 0..n}

\* Conditions found in the loaded chapter. The right operand of a
\* compare-to-constant condition is a value, which may coincide with an id.
ConditionShapes ==
    {[left |-> 1, compare_to |-> "Constant", right |-> 2],
     [left |-> 2, compare_to |-> "Variable", right |-> 1],
     [left |-> 2, compare_to |-> "Constant", right |-> 1]}

ConditionIds(e) ==
    {e.left} \cup (IF e.compare_to = "Variable" THEN {e.right} ELSE {})

\* the conditions and operations that refer only to the first k variables
ConditionsOver(k) == {e \in ConditionShapes : ConditionIds(e) \subseteq 1..k}
OperationsOver(k) == {[variable_id |-> v] : v \in (1..k) \cap {1, 2}}

Option(conditions, operations) ==
    [conditions |-> conditions, operations |-> operations]

\* an option that refers to each of the first variables (two at most) once
PlainOption(k) ==
    Option([i \in 1..(IF k < 2 THEN k ELSE 2) |->
               [left |-> i, compare_to |-> "Constant", right |-> 0]],
           [i \in 1..(IF k < 2 THEN k ELSE 2) |-> [variable_id |-> i]])

\* Two branches; the first is a story branch with two segments, the
\* second is a story branch or the endings branch.
Chapter(opt, plain, endings) ==
    <<[is_endings_branch |-> FALSE,
       segments |-> <<[options |-> <<plain, opt>>], [options |-> <<opt>>]>>],
      [is_endings_branch |-> endings,
       segments |-> <<[options |-> <<opt>>]>>]>>

\* the chapter of the widget's specification
PlainChapter(k) == Chapter(PlainOption(k), PlainOption(k), TRUE)

\* the chapters of the cleanup's specification
InitChapters(k) ==
    {Chapter(Option(cs, os), PlainOption(k), e) :
        cs \in BSeq(ConditionsOver(k), MaxConds),
        os \in BSeq(OperationsOver(k), MaxOps),
        e \in BOOLEAN}

\* chapter.variables as loaded: ids 1..k, flags and numbers alternating
InitVariable(i) ==
    [id            |-> i,
     name          |-> DefaultName,
     type          |-> IF i % 2 = 1 THEN "bool" ELSE "float",
     initial_value |-> IF i % 2 = 1 THEN PyBool(FALSE) ELSE PyFloat(0)]

(***************************************************************************)
(* Observation of the most recent handler.                                 *)
(***************************************************************************)
NoHandler ==
    [op      |-> "init",   \* "init", "select", "add", "move", "delete",
                           \* "toggle", "spin", "changed"
     choice  |-> "",       \* the dialog's result
     delta   |-> 0,        \* the argument of _move_variable
     raised  |-> FALSE,    \* the handler ended with an IndexError
     marks   |-> 0,        \* calls of FileState.set_dirty()
     named   |-> 0,        \* id of the variable named in the confirmation
     cleaned |-> 0,        \* id handed to the cleanup
     removed |-> 0,        \* id of the entry deleted from the list
     taken   |-> 0,        \* id of the variable of the item taken from the tree
     before  |-> <<>>,     \* the branch data the cleanup started from
     item    |-> 0,        \* id of the variable the signalling item is bound to
     wrote   |-> 0,        \* id of the variable whose name or value was assigned
     value   |-> PyNone,   \* the initial_value assigned
     entered |-> 0,        \* the number the user typed into the spin box
     text    |-> "",       \* the name assigned
     column  |-> -1,       \* the column itemChanged reported
     loose   |-> FALSE]    \* init_widgets ran on an item that is not in the tree

ItemVariableAt(items, i) ==
    IF (0 <= i) /\ (i < Len(items)) THEN items[i + 1].variable ELSE 0

(***************************************************************************)
(* Construction: __init__ ends with _generate_items().                     *)
(***************************************************************************)
InitWidget(k) ==
    /\ variables = [i \in 1..k |-> InitVariable(i)]
    /\ rows = generate_items(variables)
    /\ current = -1
    /\ nextId = k + 1
    /\ dirty = FALSE
    /\ edits = 0
    /\ last = NoHandler

Init ==
    \E k \in 0..MaxInitVars :
        /\ InitWidget(k)
        /\ branches = PlainChapter(k)

(***************************************************************************)
(* The user makes the row at index i the current item.                     *)
(***************************************************************************)
select(i) ==
    /\ i \in 0..(Len(rows) - 1)
    /\ current' = i
    /\ last' = [NoHandler EXCEPT !.op = "select"]
    /\ UNCHANGED <<variables, branches, rows, nextId, dirty, edits>>

(***************************************************************************)
(* _context_menu: which actions of the menu are enabled.                   *)
(***************************************************************************)
MoveUpEnabled == ~(current = 0)

MoveDownEnabled == ~(current + 1 = Len(variables))

MoveEnabled(delta) == IF delta = -1 THEN MoveUpEnabled ELSE MoveDownEnabled

\* (variant: the action is never disabled)
DeleteAlwaysEnabled == TRUE

DeleteEnabled == Len(variables) > 0

(***************************************************************************)
(* _add_variable                                                           *)
(***************************************************************************)
\* where _add_variable puts the new variable and its item
AddPosition(selected_i) == selected_i + 1

add_variable(picked) ==
    LET selected_i == current
        new        == generate_new_variable(nextId, picked)
    IN  IF new = NoVariable
        THEN /\ last' = [NoHandler EXCEPT !.op = "add", !.choice = picked]
             /\ UNCHANGED <<variables, branches, rows, current, nextId, dirty,
                            edits>>
        ELSE /\ nextId <= MaxIds
             /\ variables' = PyInsert(variables, AddPosition(selected_i), new)
             /\ dirty' = TRUE
             /\ rows' = InsertTopLevelItem(rows, AddPosition(selected_i),
                                           generate_item(new))
             /\ nextId' = nextId + 1
             /\ last' = [NoHandler EXCEPT !.op = "add", !.choice = picked,
                                          !.marks = 1]
             /\ UNCHANGED <<branches, current, edits>>

(***************************************************************************)
(* _move_variable                                                          *)
(***************************************************************************)
\* where _move_variable puts the variable it popped at index
MovePosition(index, delta) == index + delta

move_variable(delta) ==
    LET index == current
    IN  /\ MoveEnabled(delta)
        /\ IF ~PyIndexOK(variables, index)
           THEN \* self.variables.pop(index) raises IndexError
                /\ last' = [NoHandler EXCEPT !.op = "move", !.delta = delta,
                                             !.raised = TRUE]
                /\ UNCHANGED <<variables, branches, rows, current, nextId,
                               dirty, edits>>
           ELSE LET var      == PyGet(variables, index)
                    popped   == PyDel(variables, index)
                    taken    == TakeTopLevelItem(rows, index)
                    var_item == generate_item(var)
                    target   == MovePosition(index, delta)
                IN  /\ variables' = PyInsert(popped, target, var)
                    /\ rows' = InsertTopLevelItem(taken, target, var_item)
                    \* setCurrentItem(var_item): an item that is not in the
                    \* tree has no index, and the current index is cleared
                    /\ current' = IF InsertOK(taken, target) THEN target
                                  ELSE -1
                    /\ dirty' = TRUE
                    \* (the reassignment of EditorState.current_option only
                    \* refreshes widgets outside this one)
                    /\ last' = [NoHandler EXCEPT
                                    !.op = "move", !.delta = delta,
                                    !.marks = 1,
                                    !.taken = ItemVariableAt(rows, index),
                                    !.loose = ~InsertOK(taken, target)]
                    /\ UNCHANGED <<branches, nextId, edits>>

(***************************************************************************)
(* _delete_variable                                                        *)
(***************************************************************************)
Answers == {"Yes", "No"}

\* (variant: the answer is not looked at)
ConfirmedAlways(res) == TRUE

\* if res == QMessageBox.Yes
Confirmed(res) == res = "Yes"

delete_variable(res) ==
    LET selected_i == current
    IN  /\ DeleteEnabled
        /\ IF ~PyIndexOK(variables, selected_i)
           THEN \* self.variables[selected_i] raises IndexError before the
                \* question is asked: one step, whatever the answer would be
                /\ res = "No"
                /\ last' = [NoHandler EXCEPT !.op = "delete", !.raised = TRUE]
                /\ UNCHANGED <<variables, branches, rows, current, nextId,
                               dirty, edits>>
           ELSE IF Confirmed(res)
           THEN LET named   == PyGet(variables, selected_i)
                    deleted == PyGet(variables, selected_i)
                    cleaned == cleanup_after_variable_deletion(branches,
                                                               deleted.id)
                IN  /\ branches' = cleaned
                    /\ variables' = PyDel(variables, selected_i)
                    /\ dirty' = TRUE
                    /\ rows' = TakeTopLevelItem(rows, selected_i)
                    /\ current' \in CurrentAfterTake(rows, current, selected_i)
                    /\ last' = [NoHandler EXCEPT
                                    !.op = "delete", !.choice = res,
                                    !.marks = 1,
                                    !.named = named.id,
                                    !.cleaned = deleted.id,
                                    !.removed = deleted.id,
                                    !.taken = ItemVariableAt(rows, selected_i),
                                    !.before = branches]
                    /\ UNCHANGED <<nextId, edits>>
           ELSE /\ last' = [NoHandler EXCEPT
                                !.op = "delete", !.choice = res,
                                !.named = PyGet(variables, selected_i).id]
                /\ UNCHANGED <<variables, branches, rows, current, nextId,
                               dirty, edits>>

(***************************************************************************)
(* The value widgets and the item's label.                                 *)
(***************************************************************************)
\* item.variable.initial_value = value: the item holds the object itself,
\* which is in the list for as long as the list holds that variable
AssignInitialValue(vs, id, value) ==
    [k \in 1..Len(vs) |->
        IF vs[k].id = id THEN [vs[k] EXCEPT !.initial_value = value]
        ELSE vs[k]]

\* BoolTreeWidgetItem.on_check_box_value_changed: the user clicks the check
\* box of the item at index i, which goes from unchecked to checked or back
on_check_box_value_changed(i) ==
    /\ edits < MaxEdits
    /\ edits' = edits + 1
    /\ i \in 0..(Len(rows) - 1)
    /\ rows[i + 1].kind = "Bool"
    /\ LET item       == rows[i + 1]
           checkState == IF item.value = 0 THEN 2 ELSE 0
       IN  /\ rows' = [rows EXCEPT ![i + 1].value = checkState]
           /\ variables' = AssignInitialValue(variables, item.variable,
                                              PyInt(checkState))
           /\ dirty' = TRUE
           /\ last' = [NoHandler EXCEPT
                           !.op = "toggle", !.marks = 1,
                           !.item = item.variable,
                           !.wrote = item.variable,
                           !.value = PyInt(checkState)]
           /\ UNCHANGED <<branches, current, nextId>>

\* the numbers the user types into a spin box (in hundredths): a negative
\* one, zero, and one above the range the spin box is constructed with
SpinValues == {-350, 0, 12345}

\* (variant: the range the spin box was constructed with is still in force)
SpinBoxDefaultRange(v) == SpinBoxSetValue(v)

\* the value the spin box takes for an entry once setRange(-inf, inf) has
\* been called
SpinBoxEnter(v) == v

\* FloatTreeWidgetItem.on_spin_box_value_changed: the user enters v in the
\* spin box of the item at index i; valueChanged fires when the value of the
\* spin box changes
on_spin_box_value_changed(i, v) ==
    /\ edits < MaxEdits
    /\ edits' = edits + 1
    /\ i \in 0..(Len(rows) - 1)
    /\ rows[i + 1].kind = "Float"
    /\ SpinBoxEnter(v) # rows[i + 1].value
    /\ LET item == rows[i + 1]
       IN  /\ rows' = [rows EXCEPT ![i + 1].value = SpinBoxEnter(v)]
           /\ variables' = AssignInitialValue(variables, item.variable,
                                              PyFloat(SpinBoxEnter(v)))
           /\ dirty' = TRUE
           /\ last' = [NoHandler EXCEPT
                           !.op = "spin", !.marks = 1,
                           !.entered = v,
                           !.item = item.variable,
                           !.wrote = item.variable,
                           !.value = PyFloat(SpinBoxEnter(v))]
           /\ UNCHANGED <<branches, current, nextId>>

\* the labels the user types
Labels == {DefaultName, "hp"}

\* the columns of the tree: the name and the value widget
Columns == {0, 1}

\* if column == 0
IsNameColumn(column) == column = 0

\* item.text(column): the model keeps the text of the name column only
ItemText(item, column) == IF column = 0 THEN item.text ELSE ""

\* _on_self_item_changed(item, column): the user commits the editor of the
\* current item. In column 0 the item's text becomes t; the data of the
\* other column is not part of the model.
on_self_item_changed(column, t) ==
    /\ edits < MaxEdits
    /\ edits' = edits + 1
    /\ current \in 0..(Len(rows) - 1)
    /\ LET item  == rows[current + 1]
           index == current      \* indexOfTopLevelItem(item)
           shown == IF column = 0
                    THEN [rows EXCEPT ![current + 1].text = t]
                    ELSE rows
       IN  /\ (column = 0) => (t # item.text)
           /\ (column # 0) => (t = "")
           /\ rows' = shown
           /\ IF ~IsNameColumn(column)
              THEN /\ last' = [NoHandler EXCEPT
                                   !.op = "changed", !.column = column,
                                   !.item = item.variable]
                   /\ UNCHANGED <<variables, dirty>>
              ELSE IF ~PyIndexOK(variables, index)
              THEN \* self.variables[index] raises IndexError
                   /\ last' = [NoHandler EXCEPT
                                   !.op = "changed", !.column = column,
                                   !.item = item.variable,
                                   !.raised = TRUE]
                   /\ UNCHANGED <<variables, dirty>>
              ELSE /\ variables' =
                          [variables EXCEPT
                              ![index + 1].name =
                                  ItemText(shown[current + 1], column)]
                   /\ dirty' = TRUE
                   /\ last' = [NoHandler EXCEPT
                                   !.op = "changed", !.column = column,
                                   !.marks = 1,
                                   !.item = item.variable,
                                   !.wrote = variables[index + 1].id,
                                   !.text =
                                       ItemText(shown[current + 1], column)]
           /\ UNCHANGED <<branches, current, nextId>>

(***************************************************************************)
(* The widget: every handler, on the plain chapter.                        *)
(***************************************************************************)
Next ==
    \/ \E i \in 0..(Len(rows) - 1) : select(i)
    \/ \E picked \in PickerResults : add_variable(picked)
    \/ \E delta \in {-1, 1} : move_variable(delta)
    \/ \E res \in Answers : delete_variable(res)

Spec == Init /\ [][Next]_vars

(***************************************************************************)
(* The cleanup: selections and deletions, on every chapter of the bounds.  *)
(* The cleanup reads the branch data and the deleted id only.              *)
(***************************************************************************)
InitCleanup ==
    \E k \in 0..MaxInitVars :
        /\ InitWidget(k)
        /\ branches \in InitChapters(k)

NextCleanup ==
    \/ \E i \in 0..(Len(rows) - 1) : select(i)
    \/ \E res \in Answers : delete_variable(res)

SpecCleanup == InitCleanup /\ [][NextCleanup]_vars

(***************************************************************************)
(* The editors: selections, moves, deletions and the edits of values and   *)
(* labels, on lists whose numbers were saved with any initial value.       *)
(***************************************************************************)
\* initial values of the numbers of a loaded chapter (in hundredths): below
\* the range a spin box is constructed with, inside it, and above it
LoadedNumbers == {-350, 0, 12345}

LoadedVariable(i, n) ==
    IF InitVariable(i).type = "float"
    THEN [InitVariable(i) EXCEPT !.initial_value = PyFloat(n)]
    ELSE InitVariable(i)

InitEdit ==
    \E k \in 0..MaxInitVars, n \in LoadedNumbers :
        /\ (k < 2) => (n = 0)       \* no number in the list: one chapter
        /\ variables = [i \in 1..k |-> LoadedVariable(i, n)]
        /\ rows = generate_items(variables)
        /\ current = -1
        /\ nextId = k + 1
        /\ dirty = FALSE
        /\ edits = 0
        /\ last = NoHandler
        /\ branches = PlainChapter(k)

NextEdit ==
    \/ \E i \in 0..(Len(rows) - 1) : select(i)
    \/ \E delta \in {-1, 1} : move_variable(delta)
    \/ \E res \in Answers : delete_variable(res)
    \/ \E i \in 0..(Len(rows) - 1) : on_check_box_value_changed(i)
    \/ \E i \in 0..(Len(rows) - 1), v \in SpinValues :
          on_spin_box_value_changed(i, v)
    \/ \E column \in Columns, t \in Labels \cup {""} :
          on_self_item_changed(column, t)

SpecEdit == InitEdit /\ [][NextEdit]_vars

(***************************************************************************)
(* Every handler of the widget and of its items, on a chapter whose        *)
(* options hold entries that refer to a variable, entries that do not, and *)
(* constants that coincide with an id.                                     *)
(***************************************************************************)
FrameConditions ==
    <<[left |-> 2, compare_to |-> "Constant", right |-> 1],
      [left |-> 1, compare_to |-> "Constant", right |-> 2],
      [left |-> 2, compare_to |-> "Variable", right |-> 1],
      [left |-> 1, compare_to |-> "Constant", right |-> 0],
      [left |-> 2, compare_to |-> "Constant", right |-> 0]>>

\* an operation writes a value to its variable
FrameOperations ==
    <<[variable_id |-> 1, value |-> 10],
      [variable_id |-> 2, value |-> 20],
      [variable_id |-> 1, value |-> 30],
      [variable_id |-> 2, value |-> 40]>>

\* the entries that refer only to the first k variables, in their order
FrameOption(k) ==
    Option(SelectSeq(FrameConditions,
                     LAMBDA e : ConditionIds(e) \subseteq 1..k),
           SelectSeq(FrameOperations,
                     LAMBDA e : e.variable_id \in 1..k))

FrameChapter(k) == Chapter(FrameOption(k), PlainOption(k), TRUE)

InitAll ==
    \E k \in 0..MaxInitVars :
        /\ InitWidget(k)
        /\ branches = FrameChapter(k)

NextAll ==
    \/ \E i \in 0..(Len(rows) - 1) : select(i)
    \/ \E picked \in PickerResults :
          Len(rows) < MaxAddRows /\ add_variable(picked)
    \/ \E delta \in {-1, 1} : move_variable(delta)
    \/ \E res \in Answers : delete_variable(res)
    \/ \E i \in 0..(Len(rows) - 1) : on_check_box_value_changed(i)
    \/ \E i \in 0..(Len(rows) - 1), v \in SpinValues :
          on_spin_box_value_changed(i, v)
    \/ \E column \in Columns, t \in Labels \cup {""} :
          on_self_item_changed(column, t)

SpecAll == InitAll /\ [][NextAll]_vars

(***************************************************************************)
(* Vocabulary of the properties.                                           *)
(***************************************************************************)
Ids(vs) == {vs[i].id : i \in 1..Len(vs)}

\* the places <<branch, segment, option>> of the options of a chapter
OptionPositions(brs) ==
    UNION {UNION {{<<b, s, o>> : o \in 1..Len(brs[b].segments[s].options)} :
                  s \in 1..Len(brs[b].segments)} :
           b \in 1..Len(brs)}

OptionAt(brs, p) == brs[p[1]].segments[p[2]].options[p[3]]

StoryPositions(brs) ==
    {p \in OptionPositions(brs) : ~brs[p[1]].is_endings_branch}

EndingsPositions(brs) ==
    {p \in OptionPositions(brs) : brs[p[1]].is_endings_branch}

\* a condition refers to the variable d
ConditionRefers(e, d) ==
    IF e.left = d THEN TRUE
    ELSE IF e.compare_to = "Variable" THEN e.right = d
    ELSE FALSE

RefersAt(seq, d, condition) ==
    {i \in 1..Len(seq) :
        IF condition THEN ConditionRefers(seq[i], d) ELSE seq[i].variable_id = d}

OptionRefers(opt, d) ==
    \/ RefersAt(opt.conditions, d, TRUE) # {}
    \/ RefersAt(opt.operations, d, FALSE) # {}

DeleteConfirmed == last.op = "delete" /\ last.choice = "Yes"

(***************************************************************************)
(* C1. After construction and after any add, move or delete, the rows are  *)
(* the variables: as many rows as variables, and the row at each index is  *)
(* the row of the variable at that index of the list.                      *)
(***************************************************************************)
C1_RowsMatchVariables ==
    /\ Len(rows) = Len(variables)
    /\ \A i \in 1..Len(variables) : rows[i].variable = variables[i].id

(***************************************************************************)
(* C2. After a confirmed delete nothing in the chapter's branch data       *)
(* refers to the removed variable. As stated (any branch):                 *)
(***************************************************************************)
C2_NoReferenceAnywhere ==
    DeleteConfirmed =>
        \A p \in OptionPositions(branches) :
            ~OptionRefers(OptionAt(branches, p), last.removed)

\* C2 as amended: after a confirmed delete no condition and no operation of
\* any branch other than an endings branch refers to the removed variable.
C2_NoReferenceInStoryBranches ==
    DeleteConfirmed =>
        \A p \in StoryPositions(branches) :
            ~OptionRefers(OptionAt(branches, p), last.removed)

\* a confirmed delete of a variable the story branches referred to
C2_Witness ==
    /\ DeleteConfirmed
    /\ \E p \in StoryPositions(last.before) :
           OptionRefers(OptionAt(last.before, p), last.removed)

(***************************************************************************)
(* C3. A confirmed delete of the variable d removes, from every option of  *)
(* every branch other than an endings branch, every condition and every    *)
(* operation that refers to d, however many of them there are and wherever *)
(* they stand, and d is no longer in the variable list.                    *)
(***************************************************************************)
C3_EveryReferenceRemoved ==
    DeleteConfirmed =>
        /\ last.removed \notin Ids(variables)
        /\ \A p \in StoryPositions(last.before) :
             LET old == OptionAt(last.before, p)
                 new == OptionAt(branches, p)
                 d   == last.removed
             IN  /\ RefersAt(new.conditions, d, TRUE) = {}
                 /\ RefersAt(new.operations, d, FALSE) = {}
                 /\ Len(new.conditions) =
                      Len(old.conditions)
                      - Cardinality(RefersAt(old.conditions, d, TRUE))
                 /\ Len(new.operations) =
                      Len(old.operations)
                      - Cardinality(RefersAt(old.operations, d, FALSE))

\* a confirmed delete where one option held two referring conditions with
\* another condition between them, and two referring operations side by side
C3_Witness ==
    /\ DeleteConfirmed
    /\ \E p \in StoryPositions(last.before) :
         LET cs == OptionAt(last.before, p).conditions
             os == OptionAt(last.before, p).operations
         IN  /\ Len(cs) = 3
             /\ RefersAt(cs, last.removed, TRUE) = {1, 3}
             /\ RefersAt(os, last.removed, FALSE) = {1, 2}
             /\ Len(OptionAt(branches, p).conditions) = 1

(***************************************************************************)
(* C4. A confirmed delete leaves every endings branch as it was, also      *)
(* where its options refer to the deleted variable.                        *)
(***************************************************************************)
C4_EndingsUntouched ==
    DeleteConfirmed =>
        \A b \in 1..Len(last.before) :
            last.before[b].is_endings_branch => branches[b] = last.before[b]

\* a confirmed delete of a variable an endings branch refers to
C4_Witness ==
    /\ DeleteConfirmed
    /\ \E p \in EndingsPositions(branches) :
           OptionRefers(OptionAt(branches, p), last.removed)

(***************************************************************************)
(* C5. A delete whose confirmation is answered No changes nothing: not the *)
(* variable list, the rows, the current item or the branch data, and the   *)
(* document is not marked dirty.                                           *)
(***************************************************************************)
C5_DeclinedDeleteChangesNothing ==
    [][(last'.op = "delete" /\ last'.choice = "No") =>
          /\ UNCHANGED <<variables, rows, current, branches, dirty, nextId>>
          /\ last'.marks = 0]_vars

\* a declined delete of a variable, in a document that is still clean
C5_Witness ==
    /\ last.op = "delete"
    /\ last.choice = "No"
    /\ last.named \in Ids(variables)
    /\ ~dirty

(***************************************************************************)
(* C6. A confirmed add with the row at index i current puts one new        *)
(* variable at position i + 1 of the list (0 with no current row) and its  *)
(* row at the same position of the tree, keeps what stood before it and    *)
(* shifts what stood after it; Flag gives a bool variable, value false, in *)
(* a BoolRow, Number a float variable, value 0.0, in a NumberRow; the      *)
(* document is marked dirty.                                               *)
(***************************************************************************)
InsertedAt(old, new, pos, x) ==
    /\ Len(new) = Len(old) + 1
    /\ pos + 1 \in 1..Len(new)
    /\ new[pos + 1] = x
    /\ \A j \in 1..pos : new[j] = old[j]
    /\ \A j \in (pos + 2)..Len(new) : new[j] = old[j - 1]

C6_AddInsertsAfterCurrent ==
    [][(last'.op = "add" /\ last'.choice # "Cancel") =>
          LET type  == IF last'.choice = "Flag" THEN "bool" ELSE "float"
              value == IF last'.choice = "Flag" THEN PyBool(FALSE)
                       ELSE PyFloat(0)
              new   == [id |-> nextId, name |-> DefaultName, type |-> type,
                        initial_value |-> value]
              item  == [variable |-> nextId,
                        kind |-> IF last'.choice = "Flag" THEN "Bool"
                                 ELSE "Float",
                        text |-> DefaultName, value |-> 0]
          IN  /\ InsertedAt(variables, variables', current + 1, new)
              /\ InsertedAt(rows, rows', current + 1, item)
              /\ dirty'
              /\ last'.marks = 1]_vars

(***************************************************************************)
(* C7. Move up is enabled only when the index before the current one is an *)
(* index of the list, Move down only when the index after it is; so the    *)
(* move handler never runs with a source or target outside the list.       *)
(***************************************************************************)
C7_MoveEnabledOnlyInBounds ==
    \A delta \in {-1, 1} :
        (ENABLED move_variable(delta)) =>
            /\ current \in 0..(Len(variables) - 1)
            /\ (current + delta) \in 0..(Len(variables) - 1)

(***************************************************************************)
(* C8. An enabled move of the current entry at index i exchanges the       *)
(* entries at i and i + delta of the list and nothing else, leaves the     *)
(* moved variable's row current at its new index, and marks the document   *)
(* dirty.                                                                  *)
(***************************************************************************)
C8_MoveExchangesNeighbours ==
    [][(last'.op = "move" /\ current >= 0) =>
          LET i == current + 1
              j == current + 1 + last'.delta
          IN  /\ i \in 1..Len(variables)
              /\ j \in 1..Len(variables)
              /\ Len(variables') = Len(variables)
              /\ variables'[j] = variables[i]
              /\ variables'[i] = variables[j]
              /\ \A n \in 1..Len(variables) :
                    (n # i /\ n # j) => variables'[n] = variables[n]
              /\ current' = j - 1
              /\ current' + 1 \in 1..Len(rows')
              /\ rows'[current' + 1].variable = variables[i].id
              /\ dirty'
              /\ last'.marks = 1]_vars

(***************************************************************************)
(* C9. A confirmed delete cleans up with the id of the entry it is about   *)
(* to remove, then removes that entry, marks the document dirty and takes  *)
(* the row out; the variable named in the question, the id cleaned up, the *)
(* entry removed and the row taken out are all the current variable's, and *)
(* one entry and one row go.                                               *)
(***************************************************************************)
C9_DeleteRemovesCurrentEverywhere ==
    DeleteConfirmed =>
        /\ last.marks = 1
        /\ last.named = last.removed
        /\ last.cleaned = last.removed
        /\ last.taken = last.removed
        /\ last.removed \notin Ids(variables)
        /\ \A i \in 1..Len(rows) : rows[i].variable # last.removed

(***************************************************************************)
(* C10. Delete is enabled exactly when the variable list is not empty, so  *)
(* the delete handler never runs on an empty list.                         *)
(***************************************************************************)
C10_DeleteEnabledIffNonEmpty ==
    (ENABLED (\E res \in Answers : delete_variable(res)))
        <=> (Len(variables) > 0)

\* the last variable has just been deleted: the list is empty again
C10_Witness ==
    /\ DeleteConfirmed
    /\ Len(variables) = 0

(***************************************************************************)
(* C11. Clicking a BoolRow's check box to checked sets the initial_value   *)
(* of the variable the row is bound to to the boolean true, clicking it to *)
(* unchecked sets it to the boolean false, and each click marks the        *)
(* document dirty exactly once.                                            *)
(***************************************************************************)
C11_ToggleStoresBoolean ==
    [][(last'.op = "toggle") =>
          /\ last'.marks = 1
          /\ \A i \in 1..Len(rows) :
                (rows'[i].value # rows[i].value) =>
                    /\ last'.value = PyBool(rows'[i].value = 2)
                    /\ \A k \in 1..Len(variables') :
                          (variables'[k].id = rows[i].variable) =>
                              variables'[k].initial_value =
                                  PyBool(rows'[i].value = 2)]_vars

(***************************************************************************)
(* C12. After construction and after every handler, the value control of   *)
(* each row holds the initial_value of the variable the row is bound to: a *)
(* check box is checked exactly when the value is true, and a spin box     *)
(* shows the number itself, also when the number is negative or above the  *)
(* range the spin box is constructed with.                                 *)
(***************************************************************************)
ControlShows(item, variable) ==
    IF item.kind = "Bool"
    THEN (item.value = 2) <=> PyTruth(variable.initial_value)
    ELSE item.value = variable.initial_value.n

C12_ControlsShowInitialValues ==
    \A i \in 1..Len(rows) :
        \A k \in 1..Len(variables) :
            (variables[k].id = rows[i].variable) =>
                ControlShows(rows[i], variables[k])

(***************************************************************************)
(* C13. Entering a number v in the spin box of a NumberRow, be it          *)
(* negative, zero or far above the range the spin box was constructed      *)
(* with, leaves the spin box showing v, sets the initial_value of the      *)
(* variable the row is bound to to exactly v, and marks the document dirty *)
(* once.                                                                   *)
(***************************************************************************)
C13_SpinStoresEnteredValue ==
    (last.op = "spin") =>
        /\ last.wrote = last.item
        /\ last.value = PyFloat(last.entered)
        /\ \A k \in 1..Len(variables) :
              (variables[k].id = last.item) =>
                  variables[k].initial_value = PyFloat(last.entered)
        /\ \E i \in 1..Len(rows) :
              /\ rows[i].variable = last.item
              /\ rows[i].value = last.entered
        /\ dirty
        /\ last.marks = 1

\* a number outside the range the spin box was constructed with has just
\* been entered for a variable of the list
C13_Witness ==
    /\ last.op = "spin"
    /\ last.entered \notin SpinBoxDefaultMin..SpinBoxDefaultMax
    /\ last.item \in Ids(variables)

(***************************************************************************)
(* C14. Committing a label edit that leaves a row with the text t sets the *)
(* name of the variable the row is bound to, and of no other variable, to  *)
(* t and marks the document dirty, in every state add, move and delete     *)
(* lead to; a change reported for another column changes no variable and   *)
(* does not mark the document dirty.                                       *)
(***************************************************************************)
C14_LabelEditRenamesBoundVariable ==
    [][(last'.op = "changed") =>
          IF last'.column = 0
          THEN /\ ~last'.raised
               /\ last'.wrote = last'.item
               /\ last'.text = rows'[current + 1].text
               /\ Len(variables') = Len(variables)
               /\ \A k \in 1..Len(variables) :
                     IF variables[k].id = last'.item
                     THEN variables'[k] =
                              [variables[k] EXCEPT !.name = last'.text]
                     ELSE variables'[k] = variables[k]
               /\ dirty'
               /\ last'.marks = 1
          ELSE /\ UNCHANGED <<variables, dirty>>
               /\ last'.marks = 0]_vars

(***************************************************************************)
(* C15. An add whose type picker is cancelled adds no variable and no row, *)
(* leaves the variable list, the rows, the current item and the branch     *)
(* data as they were, and does not mark the document dirty.                *)
(***************************************************************************)
C15_CancelledAddChangesNothing ==
    [][(last'.op = "add" /\ last'.choice = "Cancel") =>
          /\ UNCHANGED <<variables, rows, current, branches, dirty, nextId>>
          /\ last'.marks = 0]_vars

\* a cancelled add with a row current, in a document that is still clean
C15_Witness ==
    /\ last.op = "add"
    /\ last.choice = "Cancel"
    /\ current >= 0
    /\ Len(variables) > 0
    /\ ~dirty

(***************************************************************************)
(* C16. With distinct ids in the loaded list and a factory that hands out  *)
(* an id the list does not hold, the ids of the list stay pairwise         *)
(* distinct through every add, move, delete, label edit and value edit,    *)
(* and no handler changes the id of a variable: every entry of the list    *)
(* after a handler is an entry of the list before it, with its id and      *)
(* type, or the variable the factory has just made.                        *)
(***************************************************************************)
DistinctIds(vs) ==
    \A i, j \in 1..Len(vs) : (i # j) => (vs[i].id # vs[j].id)

RowsMatch(items, vs) ==
    /\ Len(items) = Len(vs)
    /\ \A i \in 1..Len(vs) : items[i].variable = vs[i].id

AbortPath(handler) ==
    \/ handler.op = "delete" /\ handler.choice = "No"
    \/ handler.op = "add" /\ handler.choice = "Cancel"
    \/ handler.op = "changed" /\ handler.column # 0

C17_MarksDirty ==
    /\ (variables' # variables \/ branches' # branches) =>
          (dirty' /\ last'.marks >= 1)
    /\ AbortPath(last') =>
          /\ UNCHANGED <<variables, branches, rows, current, nextId, dirty>>
          /\ last'.marks = 0
    /\ dirty => dirty'

C17_AllOrNothing ==
    [][/\ C17_MarksDirty
       /\ (variables' # variables /\ RowsMatch(rows, variables)) =>
             RowsMatch(rows', variables')]_vars

(***************************************************************************)
(* C18. init_widgets, the one step that attaches a row's value control, is *)
(* called on a row only once that row has been inserted into the tree, in  *)
(* the initial build, in add and in move: no handler calls it on a row     *)
(* that is not a top-level item.                                           *)
(***************************************************************************)
C18_AttachOnlyInsertedRows == ~last.loose

(***************************************************************************)
(* C19. The cleanup removes matching entries only. After a confirmed       *)
(* delete of the variable d every option still holds, in their order, the  *)
(* conditions that neither have left = d nor compare with the variable d   *)
(* on the right (a condition that compares with a constant equal to d is   *)
(* one of them) and the operations whose variable_id is not d, and nothing *)
(* new. No other handler (add, move, label edit, value edit) changes the   *)
(* branch data.                                                            *)
(***************************************************************************)
KeptConditions(conditions, d) ==
    SelectSeq(conditions, LAMBDA e : ~ConditionRefers(e, d))

KeptOperations(operations, d) ==
    SelectSeq(operations, LAMBDA e : e.variable_id # d)

C19_CleanupRemovesOnlyMatching ==
    [][IF last'.op = "delete" /\ last'.choice = "Yes"
       THEN /\ OptionPositions(branches') = OptionPositions(branches)
            /\ \A p \in OptionPositions(branches) :
                  LET old == OptionAt(branches, p)
                      new == OptionAt(branches', p)
                      d   == last'.removed
                  IN  /\ KeptConditions(new.conditions, d) =
                           KeptConditions(old.conditions, d)
                      /\ KeptOperations(new.operations, d) =
                           KeptOperations(old.operations, d)
                      /\ Len(new.conditions) <= Len(old.conditions)
                      /\ Len(new.operations) <= Len(old.operations)
       ELSE branches' = branches]_vars

\* a confirmed delete of d from a chapter in which an option of a story
\* branch held a comparison with a constant equal to d and lost some of its
\* conditions and operations while two or more of each stayed
C19_Witness ==
    /\ DeleteConfirmed
    /\ \E p \in StoryPositions(last.before) :
         LET old == OptionAt(last.before, p)
             new == OptionAt(branches, p)
         IN  /\ \E i \in 1..Len(old.conditions) :
                   /\ old.conditions[i].compare_to = "Constant"
                   /\ old.conditions[i].right = last.removed
                   /\ old.conditions[i].left # last.removed
             /\ Len(new.conditions) >= 2
             /\ Len(new.conditions) < Len(old.conditions)
             /\ Len(new.operations) >= 2
             /\ Len(new.operations) < Len(old.operations)

====
